---- MODULE Spec2Model ----
(***************************************************************************)
(* Model of py3status/modules/xrandr.py: the Py3status class that detects  *)
(* the outputs, generates every combination of connected outputs, keeps    *)
(* the displayed / active selection and applies a combination with xrandr. *)
(*                                                                         *)
(* Python strings are sequences of one-character strings, so that join,    *)
(* rstrip, split and substring tests are computed as the code computes     *)
(* them.  None is the one-element tuple <<"None">>, which no string of     *)
(* characters equals.                                                      *)
(***************************************************************************)
EXTENDS Integers, Sequences, FiniteSets, TLC

VARIABLES
    ports,                   \* the machine's outputs, in xrandr's listing order
    fallback,                \* configuration parameter (line 66)
    fixed_width,             \* configuration parameter (line 67)
    force_on_start,          \* configuration parameter (line 68), cleared at 310
    layout,                  \* self.layout, set at line 350
    available_combinations,  \* the deque (ring) of display strings
    combinations_map,        \* display string -> (combination, mode)
    active_comb, active_layout, active_mode,
    displayed,
    max_width,
    pc,                      \* idle, inside xrandr() (force, fallback), or
                             \* return: a handler is handing back to py3status
    op,                      \* the step that ran last
    ext,                     \* external commands issued by the last step
    raised,                  \* exception that ended the last step, or "none"
    color,                   \* response['color'] of the cycle
    nforced,                 \* force-on-start firings: 0, 1, or 2 for "more"
    gen_in, gen_out          \* input and result of a function run on its own
                             \* (GenSpec, CmdSpec)

vars == <<ports, fallback, fixed_width, force_on_start, layout,
          available_combinations, combinations_map, active_comb,
          active_layout, active_mode, displayed, max_width, pc, op, ext,
          raised, color, nforced, gen_in, gen_out>>

selection == <<active_comb, active_layout, active_mode, displayed,
               available_combinations>>

config == <<ports, fallback, fixed_width>>

-----------------------------------------------------------------------------
(* Bounds *)

\* most outputs connected at once in a detection
MaxConnected == 2
\* longest connected list handed to the generator run on its own
MaxGen == 3

\* longest connected list handed to the command synthesizer run on its own
MaxCmd == 3

-----------------------------------------------------------------------------
(* Strings *)

None == <<"None">>

\* None where a tuple of outputs is expected (self.active_comb, line 75)
NoneComb == << None >>

eDP1 == <<"e", "D", "P", "1">>
DP1 == <<"D", "P", "1">>
HDMI1 == <<"H", "D", "M", "I", "1">>

format_clone == <<"=">>
format_extend == <<"+">>

Range(s) == {s[i] : i \in 1..Len(s)}

Max(a, b) == IF a >= b THEN a ELSE b

\* str.join
RECURSIVE Join(_, _)
Join(sep, parts) ==
    IF parts = <<>> THEN <<>>
    ELSE IF Len(parts) = 1 THEN parts[1]
    ELSE parts[1] \o sep \o Join(sep, Tail(parts))

\* str.rstrip(chars): drop every trailing character that is one of chars
RECURSIVE RStrip(_, _)
RStrip(s, chars) ==
    IF s # <<>> /\ s[Len(s)] \in Range(chars)
    THEN RStrip(SubSeq(s, 1, Len(s) - 1), chars)
    ELSE s

\* sub in s
Contains(sub, s) ==
    \E i \in 1..(Len(s) - Len(sub) + 1) : SubSeq(s, i, i + Len(sub) - 1) = sub

\* str.split(','): the fields between the separators, empty ones included
RECURSIVE SplitAcc(_, _, _)
SplitAcc(s, c, cur) ==
    IF s = <<>> THEN <<cur>>
    ELSE IF s[1] = c THEN <<cur>> \o SplitAcc(Tail(s), c, <<>>)
    ELSE SplitAcc(Tail(s), c, Append(cur, s[1]))

Split(s, c) == SplitAcc(s, c, <<>>)

-----------------------------------------------------------------------------
(* Display strings and the combination generator *)

SeparatorWith(mode, fc, fe) ==
    IF mode = "extend" THEN fe
    ELSE IF mode = "clone" THEN fc
    ELSE <<"N", "o", "n", "e">>   \* '{}'.format(None)

\* the mode of a single-output entry of the map (None, line 153), and of
\* self.active_mode after such an entry is applied
NoMode == "None"

\* _get_string_and_set_width, the string (separators given)
StringWith(combination, mode, fc, fe) ==
    RStrip(Join(SeparatorWith(mode, fc, fe), combination),
           SeparatorWith(mode, fc, fe))

_separator(mode) == SeparatorWith(mode, format_clone, format_extend)

_get_string(combination, mode) ==
    StringWith(combination, mode, format_clone, format_extend)

\* itertools.combinations(seq, r): the r-length subsequences, in
\* lexicographic order of positions
RECURSIVE Combinations(_, _)
Combinations(seq, r) ==
    IF r = 0 THEN << <<>> >>
    ELSE IF Len(seq) < r THEN <<>>
    ELSE LET withFirst == Combinations(Tail(seq), r - 1)
             without == Combinations(Tail(seq), r)
         IN [i \in 1..Len(withFirst) |-> <<seq[1]>> \o withFirst[i]] \o without

RECURSIVE AllCombinations(_, _)
\* the combs visited by the two outer loops of lines 147-148, sizes r..Len
AllCombinations(seq, r) ==
    IF r > Len(seq) THEN <<>>
    ELSE Combinations(seq, r) \o AllCombinations(seq, r + 1)

\* MapValue without the single-output case
MapValueKeepsMode(comb, mode) == [comb |-> comb, mode |-> mode]

\* the value stored for a combination and a mode (lines 152-155)
MapValue(comb, mode) ==
    IF Len(comb) = 1 THEN [comb |-> comb, mode |-> NoMode]
    ELSE [comb |-> comb, mode |-> mode]

\* Writes with the mode loop reduced to 'extend'
RECURSIVE WritesExtendOnly(_, _, _)
WritesExtendOnly(combs, fc, fe) ==
    IF combs = <<>> THEN <<>>
    ELSE LET comb == combs[1]
         IN (IF comb # <<>>
             THEN << [string |-> StringWith(comb, "extend", fc, fe),
                      value |-> MapValue(comb, "extend")] >>
             ELSE <<>>) \o WritesExtendOnly(Tail(combs), fc, fe)

\* the (string, value) pairs written by the loops, in order (lines 147-156)
RECURSIVE Writes(_, _, _)
Writes(combs, fc, fe) ==
    IF combs = <<>> THEN <<>>
    ELSE LET comb == combs[1]
         IN (IF comb # <<>>
             THEN << [string |-> StringWith(comb, "clone", fc, fe),
                      value |-> MapValue(comb, "clone")],
                     [string |-> StringWith(comb, "extend", fc, fe),
                      value |-> MapValue(comb, "extend")] >>
             ELSE <<>>) \o Writes(Tail(combs), fc, fe)

\* a dict after the writes: the last write of a key wins
MapOf(writes) ==
    [k \in {writes[i].string : i \in 1..Len(writes)} |->
        LET last == CHOOSE i \in 1..Len(writes) :
                        /\ writes[i].string = k
                        /\ \A j \in (i + 1)..Len(writes) : writes[j].string # k
        IN writes[last].value]

RECURSIVE MaxLen(_)
MaxLen(writes) ==
    IF writes = <<>> THEN 0
    ELSE Max(Len(writes[1].string), MaxLen(Tail(writes)))

\* _set_available_combinations without the deque's order
GenerateWith(connected, fc, fe) ==
    LET writes == Writes(AllCombinations(connected, 0), fc, fe)
    IN [available |-> {writes[i].string : i \in 1..Len(writes)},
        map |-> MapOf(writes),
        max_width |-> MaxLen(writes)]

Generate(connected) == GenerateWith(connected, format_clone, format_extend)

-----------------------------------------------------------------------------
(* Configuration of the per-output hints (dynamic parameters, lines 30-47) *)

\* getattr(self, '<output>_pos', '0x0'): DP1_pos = "left-of eDP1"
Pos(output) ==
    IF output = DP1
    THEN <<"l", "e", "f", "t", "-", "o", "f", " ", "e", "D", "P", "1">>
    ELSE <<"0", "x", "0">>

\* getattr(self, '<output>_workspaces', ''): DP1_workspaces = "1,2",
\* eDP1_workspaces = "3,"
Workspaces(output) ==
    IF output = DP1 THEN <<"1", ",", "2">>
    ELSE IF output = eDP1 THEN <<"3", ",">>
    ELSE <<>>

Relational(pos) ==
    \/ Contains(<<"a", "b", "o", "v", "e">>, pos)
    \/ Contains(<<"b", "e", "l", "o", "w">>, pos)
    \/ Contains(<<"l", "e", "f", "t", "-", "o", "f">>, pos)
    \/ Contains(<<"r", "i", "g", "h", "t", "-", "o", "f">>, pos)

-----------------------------------------------------------------------------
(* The ring *)

\* every order a deque built from a set may have (line 157)
RECURSIVE Orders(_)
Orders(S) ==
    IF S = {} THEN {<<>>}
    ELSE UNION {{<<x>> \o s : s \in Orders(S \ {x})} : x \in S}

\* The orders of S that detection needs to draw.  When the string that
\* _choose_what_to_display looks for (displayed, or the active layout while
\* displayed is None) is in S, the loop rotates every order to the one
\* rotation of it that has that string first, so the orders that already
\* have it first stand for all.  Otherwise every order is drawn.
DrawnOrders(S, disp, active) ==
    LET target == IF disp = None THEN active ELSE disp
    IN IF target \in S THEN {s \in Orders(S) : s[1] = target}
       ELSE Orders(S)

\* Rotate turning the same way for both directions
RotateOneWay(ring, n) ==
    IF ring = <<>> THEN ring
    ELSE <<ring[Len(ring)]>> \o SubSeq(ring, 1, Len(ring) - 1)

\* deque.rotate(n) for n in {1, -1}
Rotate(ring, n) ==
    IF ring = <<>> THEN ring
    ELSE IF n = 1 THEN <<ring[Len(ring)]>> \o SubSeq(ring, 1, Len(ring) - 1)
    ELSE Tail(ring) \o <<ring[1]>>

\* the for loop of _choose_what_to_display with k iterations left
RECURSIVE ChooseLoop(_, _, _, _)
ChooseLoop(k, ring, disp, active) ==
    IF k = 0 THEN [ring |-> ring, displayed |-> disp, broke |-> FALSE]
    ELSE IF disp = None /\ ring[1] = active
    THEN [ring |-> ring, displayed |-> ring[1], broke |-> TRUE]
    ELSE IF disp = ring[1]
    THEN [ring |-> ring, displayed |-> disp, broke |-> TRUE]
    ELSE ChooseLoop(k - 1, Rotate(ring, 1), disp, active)

\* _choose_what_to_display without the forced snap to the head
ChooseWithoutSnap(ring, disp, active, force_refresh) ==
    LET r == ChooseLoop(Len(ring), ring, disp, active)
    IN [ring |-> r.ring, displayed |-> r.displayed, raised |-> "none"]

\* _choose_what_to_display taking the forced selection from the other end
\* of the ring
ChooseSnapsToLast(ring, disp, active, force_refresh) ==
    LET r == ChooseLoop(Len(ring), ring, disp, active)
    IN IF r.broke
       THEN [ring |-> r.ring, displayed |-> r.displayed, raised |-> "none"]
       ELSE IF force_refresh
       THEN IF r.ring = <<>>
            THEN [ring |-> r.ring, displayed |-> r.displayed,
                  raised |-> "IndexError"]
            ELSE [ring |-> r.ring, displayed |-> r.ring[Len(r.ring)],
                  raised |-> "none"]
       ELSE [ring |-> r.ring, displayed |-> r.displayed, raised |-> "none"]

\* _choose_what_to_display taking the head whenever the search fails
ChooseSnapsAlways(ring, disp, active, force_refresh) ==
    LET r == ChooseLoop(Len(ring), ring, disp, active)
    IN IF r.broke \/ r.ring = <<>>
       THEN [ring |-> r.ring, displayed |-> r.displayed, raised |-> "none"]
       ELSE [ring |-> r.ring, displayed |-> r.ring[1], raised |-> "none"]

\* _choose_what_to_display: the ring, displayed, and the exception if any
_choose_what_to_display(ring, disp, active, force_refresh) ==
    LET r == ChooseLoop(Len(ring), ring, disp, active)
    IN IF r.broke
       THEN [ring |-> r.ring, displayed |-> r.displayed, raised |-> "none"]
       ELSE IF force_refresh
       THEN IF r.ring = <<>>
            THEN [ring |-> r.ring, displayed |-> r.displayed,
                  raised |-> "IndexError"]
            ELSE [ring |-> r.ring, displayed |-> r.ring[1], raised |-> "none"]
       ELSE [ring |-> r.ring, displayed |-> r.displayed, raised |-> "none"]

\* _switch_selection without the assignment of line 326
SwitchKeepsDisplayed(ring, disp, direction) ==
    IF ring = <<>>
    THEN [ring |-> ring, displayed |-> disp, raised |-> "IndexError"]
    ELSE [ring |-> Rotate(ring, direction), displayed |-> disp,
          raised |-> "none"]

\* _switch_selection with lines 325 and 326 in the other order
SwitchReadsBeforeRotate(ring, disp, direction) ==
    IF ring = <<>>
    THEN [ring |-> ring, displayed |-> disp, raised |-> "IndexError"]
    ELSE [ring |-> Rotate(ring, direction), displayed |-> ring[1],
          raised |-> "none"]

\* _switch_selection
_switch_selection(ring, disp, direction) ==
    IF ring = <<>>
    THEN [ring |-> ring, displayed |-> disp, raised |-> "IndexError"]
    ELSE [ring |-> Rotate(ring, direction),
          displayed |-> Rotate(ring, direction)[1], raised |-> "none"]

-----------------------------------------------------------------------------
(* The command synthesizer and the workspace planner *)

\* Directives chaining every clone to the first output of the combination
RECURSIVE DirectivesChainToFirst(_, _, _, _)
DirectivesChainToFirst(outputs, combination, mode, previous_output) ==
    IF outputs = <<>> THEN <<>>
    ELSE LET output == outputs[1]
         IN IF output \in Range(combination)
            THEN << IF mode = "clone" /\ previous_output # None
                    THEN [output |-> output, directive |-> "same-as",
                          arg |-> previous_output]
                    ELSE IF Relational(Pos(output))
                    THEN [output |-> output, directive |-> "relative",
                          arg |-> Pos(output)]
                    ELSE [output |-> output, directive |-> "pos",
                          arg |-> Pos(output)] >>
                 \o DirectivesChainToFirst(Tail(outputs), combination, mode,
                                           IF previous_output = None
                                           THEN output ELSE previous_output)
            ELSE << [output |-> output, directive |-> "off", arg |-> <<>>] >>
                 \o DirectivesChainToFirst(Tail(outputs), combination, mode,
                                           previous_output)

\* the directives of the xrandr command, one per output (lines 219-243)
RECURSIVE Directives(_, _, _, _)
Directives(outputs, combination, mode, previous_output) ==
    IF outputs = <<>> THEN <<>>
    ELSE LET output == outputs[1]
         IN IF output \in Range(combination)
            THEN << IF mode = "clone" /\ previous_output # None
                    THEN [output |-> output, directive |-> "same-as",
                          arg |-> previous_output]
                    ELSE IF Relational(Pos(output))
                    THEN [output |-> output, directive |-> "relative",
                          arg |-> Pos(output)]
                    ELSE [output |-> output, directive |-> "pos",
                          arg |-> Pos(output)] >>
                 \o Directives(Tail(outputs), combination, mode, output)
            ELSE << [output |-> output, directive |-> "off", arg |-> <<>>] >>
                 \o Directives(Tail(outputs), combination, mode,
                               previous_output)

\* Command over the connected outputs only (line 221 left out)
CommandConnectedOnly(lay, combination, mode) ==
    Directives(lay.connected, combination, mode, None)

Command(lay, combination, mode) ==
    Directives(lay.connected \o lay.disconnected, combination, mode, None)

\* MoveWorkspaces without the test of line 269
RECURSIVE MoveWorkspacesKeepsEmpty(_, _)
MoveWorkspacesKeepsEmpty(workspaces, output) ==
    IF workspaces = <<>> THEN <<>>
    ELSE << [kind |-> "i3-workspace", arg |-> workspaces[1]],
            [kind |-> "i3-move", arg |-> output] >>
         \o MoveWorkspacesKeepsEmpty(Tail(workspaces), output)

\* the i3-msg calls for one output's workspaces (lines 268-276)
RECURSIVE MoveWorkspaces(_, _)
MoveWorkspaces(workspaces, output) ==
    IF workspaces = <<>> THEN <<>>
    ELSE (IF workspaces[1] = <<>> THEN <<>>
          ELSE << [kind |-> "i3-workspace", arg |-> workspaces[1]],
                  [kind |-> "i3-move", arg |-> output] >>)
         \o MoveWorkspaces(Tail(workspaces), output)

RECURSIVE MoveOutputs(_)
MoveOutputs(combination) ==
    IF combination = <<>> THEN <<>>
    ELSE MoveWorkspaces(Split(Workspaces(combination[1]), ","),
                        combination[1])
         \o MoveOutputs(Tail(combination))

\* _apply_workspaces
_apply_workspaces(combination, mode) ==
    IF Len(combination) > 1 /\ mode = "extend"
    THEN MoveOutputs(combination)
    ELSE <<>>

\* Activate without the test of the exit code
ActivateAlways(s, combination, mode, code) ==
    [s EXCEPT !.active_comb = combination,
              !.active_layout = s.displayed,
              !.active_mode = mode]

\* what a successful xrandr call does to the active layout (lines 246-249)
Activate(s, combination, mode, code) ==
    IF code = 0
    THEN [s EXCEPT !.active_comb = combination,
                   !.active_layout = s.displayed,
                   !.active_mode = mode]
    ELSE s

\* the calls of _apply once it is past its two guards (lines 219-253)
Applied(s, map, lay, code) ==
    LET combination == map[s.displayed].comb
        mode == map[s.displayed].mode
    IN [s |-> Activate(s, combination, mode, code),
        ext |-> << [kind |-> "xrandr",
                    cmd |-> Command(lay, combination, mode),
                    code |-> code] >>
                \o _apply_workspaces(combination, mode)]

\* _apply without the no-change guard
ApplyAlways(s, map, lay, force, code) ==
    IF s.displayed \notin DOMAIN map
    THEN [s |-> s, ext |-> <<>>]
    ELSE Applied(s, map, lay, code)

\* _apply with the no-change guard taken even when forced
ApplyNeverForced(s, map, lay, force, code) ==
    IF s.displayed = s.active_layout \/ s.displayed \notin DOMAIN map
    THEN [s |-> s, ext |-> <<>>]
    ELSE Applied(s, map, lay, code)

\* _apply: s is the selection state, code the exit code the xrandr call
\* returns if it is made; the result is the new state and the calls made
_apply(s, map, lay, force, code) ==
    IF s.displayed = s.active_layout /\ ~force
    THEN [s |-> s, ext |-> <<>>]
    ELSE IF s.displayed \notin DOMAIN map
    THEN [s |-> s, ext |-> <<>>]
    ELSE Applied(s, map, lay, code)

\* killall -s USR1 py3status
_refresh_py3status == << [kind |-> "refresh"] >>

-----------------------------------------------------------------------------
(* The state machine *)

\* the output lists a machine may have, in xrandr's listing order
PortLists == {<<eDP1, DP1>>, <<eDP1, DP1, HDMI1>>}

\* force_on_start as configured: unset (line 68), the example of line 44,
\* or a single output.  It is configured on the two-output machine only.
StartChoices(p) ==
    IF Len(p) = 2
    THEN {None, <<"e", "D", "P", "1", "+", "D", "P", "1">>, DP1}
    ELSE {None}

\* the elements of seq that are in S, in seq's order
RECURSIVE Filter(_, _)
Filter(seq, S) ==
    IF seq = <<>> THEN <<>>
    ELSE (IF seq[1] \in S THEN <<seq[1]>> ELSE <<>>) \o Filter(Tail(seq), S)

sel == [displayed |-> displayed,
        active_comb |-> active_comb,
        active_layout |-> active_layout,
        active_mode |-> active_mode]

Init ==
    /\ ports \in PortLists
    /\ fallback \in BOOLEAN
    /\ fixed_width \in BOOLEAN
    /\ force_on_start \in StartChoices(ports)
    /\ layout = [connected |-> <<>>, disconnected |-> <<>>, with_mode |-> {}]
    /\ available_combinations = <<>>
    /\ combinations_map = <<>>
    /\ active_comb = NoneComb
    /\ active_layout = None
    /\ active_mode = "extend"
    /\ displayed = None
    /\ max_width = 0
    /\ pc = "idle"
    /\ op = "idle"
    /\ ext = <<>>
    /\ raised = "none"
    /\ color = "none"
    /\ nforced = 0
    /\ gen_in = [connected |-> <<>>, format_clone |-> format_clone,
                 format_extend |-> format_extend]
    /\ gen_out = [done |-> FALSE, available |-> {}, map |-> <<>>,
                  max_width |-> 0]

\* GetLayout taking the active layout from every listing
GetLayoutEveryCycle(C, M) ==
    /\ layout' = [connected |-> Filter(ports, C),
                  disconnected |-> Filter(ports, Range(ports) \ C),
                  with_mode |-> M]
    /\ active_comb' = Filter(ports, M)
    /\ active_layout' = _get_string(Filter(ports, M), active_mode)

\* _get_layout: the outputs xrandr reports (C connected, M of them with a
\* mode), and the active layout on the first call (lines 128-134).  The
\* modes are read on the first call only (line 111 feeds line 130), so
\* with_mode is left empty by the later calls.
GetLayout(C, M) ==
    /\ layout' = [connected |-> Filter(ports, C),
                  disconnected |-> Filter(ports, Range(ports) \ C),
                  with_mode |-> M]
    /\ IF active_layout = None
       THEN /\ active_comb' = Filter(ports, M)
            /\ active_layout' = _get_string(Filter(ports, M), active_mode)
       ELSE UNCHANGED <<active_comb, active_layout>>

\* xrandr(), lines 350-368: detection, generation, reconciliation, the text
\* and its colour.  '{:^N}'.format(None) raises TypeError (line 355).
Detect ==
    /\ pc = "idle"
    /\ \E C \in SUBSET Range(ports) :
       \E M \in IF active_layout = None THEN SUBSET C ELSE {{}} :
        /\ Cardinality(C) <= MaxConnected
        /\ GetLayout(C, M)
        /\ LET gen == Generate(Filter(ports, C))
           IN /\ combinations_map' = gen.map
              /\ max_width' = gen.max_width
              /\ \E ring \in DrawnOrders(gen.available, displayed,
                                           active_layout') :
                   LET r == _choose_what_to_display(ring, displayed,
                                                    active_layout', FALSE)
                   IN /\ available_combinations' = r.ring
                      /\ displayed' = r.displayed
    /\ IF fixed_width /\ displayed' = None
       THEN /\ raised' = "TypeError"
            /\ pc' = "return"
            /\ color' = "none"
       ELSE /\ raised' = "none"
            /\ pc' = "force"
            /\ color' = IF displayed' = active_layout' THEN "good"
                        ELSE IF displayed' \notin Range(available_combinations')
                        THEN "bad"
                        ELSE "none"
    /\ op' = "detect"
    /\ ext' = <<>>
    /\ UNCHANGED <<config, force_on_start, active_mode, nforced, gen_in,
                   gen_out>>

\* xrandr(), lines 370-373, and _force_force_on_start
ForceOnStart ==
    /\ pc = "force"
    /\ IF force_on_start # None
          /\ force_on_start \in Range(available_combinations)
       THEN \E code \in {0, 1} :
            LET r == _choose_what_to_display(available_combinations,
                                             force_on_start, active_layout,
                                             TRUE)
                a == _apply([sel EXCEPT !.displayed = r.displayed],
                            combinations_map, layout, TRUE, code)
            IN /\ force_on_start' = None
               /\ available_combinations' = r.ring
               /\ displayed' = a.s.displayed
               /\ active_comb' = a.s.active_comb
               /\ active_layout' = a.s.active_layout
               /\ active_mode' = a.s.active_mode
               /\ ext' = a.ext \o _refresh_py3status
               /\ nforced' = IF nforced = 0 THEN 1 ELSE 2
       ELSE /\ ext' = <<>>
            /\ UNCHANGED <<force_on_start, selection, nforced>>
    /\ pc' = "fallback"
    /\ op' = "force_on_start"
    /\ raised' = "none"
    /\ UNCHANGED <<config, layout, combinations_map, max_width, color,
                   gen_in, gen_out>>

\* the guard of _fallback_to_available_output taken for any active layout
FallbackGuardAnyLayout(comb) == Len(comb) >= 1

\* the guard of _fallback_to_available_output (line 299)
FallbackGuard(comb) == Len(comb) = 1

\* xrandr(), lines 375-381, and _fallback_to_available_output
FallbackDetection ==
    /\ pc = "fallback"
    /\ IF active_layout \notin Range(available_combinations)
       THEN /\ color' = "degraded"
            /\ IF fallback /\ FallbackGuard(active_comb)
               THEN LET r == _choose_what_to_display(available_combinations,
                                                     displayed, active_layout,
                                                     TRUE)
                    IN IF r.raised # "none"
                       THEN /\ raised' = r.raised
                            /\ ext' = <<>>
                            /\ available_combinations' = r.ring
                            /\ UNCHANGED <<displayed, active_comb,
                                           active_layout, active_mode>>
                       ELSE \E code \in {0, 1} :
                            LET a == _apply([sel EXCEPT
                                                !.displayed = r.displayed],
                                            combinations_map, layout, FALSE,
                                            code)
                            IN /\ raised' = "none"
                               /\ available_combinations' = r.ring
                               /\ displayed' = a.s.displayed
                               /\ active_comb' = a.s.active_comb
                               /\ active_layout' = a.s.active_layout
                               /\ active_mode' = a.s.active_mode
                               /\ ext' = a.ext \o _refresh_py3status
               ELSE /\ raised' = "none"
                    /\ ext' = <<>>
                    /\ UNCHANGED selection
       ELSE /\ raised' = "none"
            /\ ext' = <<>>
            /\ UNCHANGED <<color, selection>>
    /\ pc' = "return"
    /\ op' = "fallback"
    /\ UNCHANGED <<config, force_on_start, layout, combinations_map,
                   max_width, nforced, gen_in, gen_out>>

\* on_click is delivered between two cycles, once the module has run
Clickable == pc = "idle" /\ active_layout # None

\* on_click with button 4 (direction -1) or button 1 or 5 (direction 1)
Switch(direction) ==
    /\ Clickable
    /\ LET r == _switch_selection(available_combinations, displayed,
                                  direction)
       IN /\ available_combinations' = r.ring
          /\ displayed' = r.displayed
          /\ raised' = r.raised
    /\ op' = IF direction = 1 THEN "forward" ELSE "backward"
    /\ ext' = <<>>
    /\ pc' = "return"
    /\ UNCHANGED <<config, force_on_start, layout, combinations_map,
                   active_comb, active_layout, active_mode, max_width,
                   color, nforced, gen_in, gen_out>>

RotateBackward == Switch(-1)

RotateForward == Switch(1)

\* on_click with button 2
SelectHead ==
    /\ Clickable
    /\ LET r == _choose_what_to_display(available_combinations, displayed,
                                        active_layout, TRUE)
       IN /\ available_combinations' = r.ring
          /\ displayed' = r.displayed
          /\ raised' = r.raised
    /\ op' = "select_head"
    /\ ext' = <<>>
    /\ pc' = "return"
    /\ UNCHANGED <<config, force_on_start, layout, combinations_map,
                   active_comb, active_layout, active_mode, max_width,
                   color, nforced, gen_in, gen_out>>

\* on_click with button 3
ApplyDisplayed ==
    /\ Clickable
    /\ \E code \in {0, 1} :
        LET a == _apply(sel, combinations_map, layout, FALSE, code)
        IN /\ active_comb' = a.s.active_comb
           /\ active_layout' = a.s.active_layout
           /\ active_mode' = a.s.active_mode
           /\ ext' = a.ext
    /\ op' = "apply"
    /\ raised' = "none"
    /\ pc' = "return"
    /\ UNCHANGED <<config, force_on_start, layout, combinations_map,
                   available_combinations, displayed, max_width, color,
                   nforced, gen_in, gen_out>>

\* the handler returns (line 381, or the end of on_click) or its exception
\* reaches py3status; what the step did is observed up to here
Return ==
    /\ pc = "return"
    /\ pc' = "idle"
    /\ op' = "idle"
    /\ ext' = <<>>
    /\ raised' = "none"
    /\ color' = "none"
    /\ UNCHANGED <<config, force_on_start, layout, combinations_map,
                   selection, max_width, nforced, gen_in, gen_out>>

Next ==
    \/ Detect
    \/ ForceOnStart
    \/ FallbackDetection
    \/ RotateBackward
    \/ RotateForward
    \/ SelectHead
    \/ ApplyDisplayed
    \/ Return

Spec == Init /\ [][Next]_vars

-----------------------------------------------------------------------------
(* The generator run on its own, on any ordered list of distinct outputs *)

\* output names handed to the generator; the last one holds a separator
GenIds == {eDP1, DP1, HDMI1, <<"A", "+">>}

GenSeparators == {<<"+">>, <<"=">>}

\* the sequences of distinct elements of S of length at most n
RECURSIVE DistinctSeqs(_, _)
DistinctSeqs(S, n) ==
    IF n = 0 THEN {<<>>}
    ELSE {<<>>} \cup UNION {{<<x>> \o s : s \in DistinctSeqs(S \ {x}, n - 1)}
                            : x \in S}

GenInit ==
    /\ ports = <<eDP1, DP1>>
    /\ fallback = TRUE
    /\ fixed_width = TRUE
    /\ force_on_start = None
    /\ layout = [connected |-> <<>>, disconnected |-> <<>>, with_mode |-> {}]
    /\ available_combinations = <<>>
    /\ combinations_map = <<>>
    /\ active_comb = NoneComb
    /\ active_layout = None
    /\ active_mode = "extend"
    /\ displayed = None
    /\ max_width = 0
    /\ pc = "idle"
    /\ op = "idle"
    /\ ext = <<>>
    /\ raised = "none"
    /\ color = "none"
    /\ nforced = 0
    /\ gen_in \in [connected : DistinctSeqs(GenIds, MaxGen),
                    format_clone : GenSeparators,
                    format_extend : GenSeparators]
    /\ gen_out = [done |-> FALSE, available |-> {}, map |-> <<>>,
                  max_width |-> 0]

\* one run of _set_available_combinations
GenRun ==
    /\ ~gen_out.done
    /\ LET g == GenerateWith(gen_in.connected, gen_in.format_clone,
                             gen_in.format_extend)
       IN gen_out' = [done |-> TRUE, available |-> g.available,
                      map |-> g.map, max_width |-> g.max_width]
    /\ UNCHANGED <<config, force_on_start, layout, combinations_map,
                   selection, max_width, pc, op, ext, raised, color, nforced,
                   gen_in>>

GenNext == GenRun

GenSpec == GenInit /\ [][GenNext]_vars

-----------------------------------------------------------------------------
(* Claims *)

RECURSIVE Pow2(_)
Pow2(n) == IF n = 0 THEN 1 ELSE 2 * Pow2(n - 1)

\* the keys of map whose combination has exactly the outputs T
KeysOf(map, T) == {k \in DOMAIN map : Range(map[k].comb) = T}

\* no output name holds a separator character and the separators differ
GenPrecondition ==
    /\ gen_in.format_clone # gen_in.format_extend
    /\ \A i \in 1..Len(gen_in.connected) :
         Range(gen_in.connected[i])
           \cap (Range(gen_in.format_clone) \cup Range(gen_in.format_extend))
         = {}

\* C1: for N distinct connected outputs whose names hold no separator (the
\* separators being distinct), one run of the generator yields a map with
\* exactly one entry, of mode None, per one-output subset and exactly two
\* entries, one clone and one extend, per larger subset, covering all
\* 2^N - 1 non-empty subsets; the available set is the map's key set; and
\* every entry's key is the display string of that entry only.
C1_GeneratorCount ==
    (gen_out.done /\ GenPrecondition) =>
        LET N == Len(gen_in.connected)
            map == gen_out.map
        IN /\ gen_out.available = DOMAIN map
           /\ \A T \in (SUBSET Range(gen_in.connected)) \ {{}} :
                IF Cardinality(T) = 1
                THEN /\ Cardinality(KeysOf(map, T)) = 1
                     /\ \A k \in KeysOf(map, T) :
                          map[k].mode = NoMode /\ map[k].comb = <<k>>
                ELSE /\ Cardinality(KeysOf(map, T)) = 2
                     /\ {map[k].mode : k \in KeysOf(map, T)}
                          = {"clone", "extend"}
           /\ \A k \in DOMAIN map : Range(map[k].comb) # {}
           /\ Cardinality(DOMAIN map) = (Pow2(N) - 1) + (Pow2(N) - 1 - N)
           /\ \A k \in DOMAIN map :
                map[k].mode # NoMode =>
                    k = StringWith(map[k].comb, map[k].mode,
                                   gen_in.format_clone, gen_in.format_extend)

\* three outputs without separator characters have been generated
C1_Witness ==
    /\ gen_out.done
    /\ GenPrecondition
    /\ Len(gen_in.connected) = 3
    /\ Cardinality(gen_out.available) = 11

Str_eDP1_plus_DP1 == eDP1 \o <<"+">> \o DP1
Str_DP1_plus_eDP1 == DP1 \o <<"+">> \o eDP1
Str_eDP1_eq_DP1 == eDP1 \o <<"=">> \o DP1
Str_DP1_eq_eDP1 == DP1 \o <<"=">> \o eDP1

\* the first detection finds eDP1 and DP1 connected, nothing disconnected
\* and no output with a mode
C2_Scenario ==
    /\ active_layout = None
    /\ layout'.connected = <<eDP1, DP1>>
    /\ layout'.disconnected = <<>>
    /\ active_comb' = <<>>

\* C2 as stated: in that first cycle active becomes the display string of
\* the empty tuple and the available set is the six strings eDP1, DP1,
\* eDP1+DP1, DP1+eDP1, eDP1=DP1, DP1=eDP1.
C2_Original ==
    [][C2_Scenario =>
        /\ active_layout' = <<>>
        /\ Range(available_combinations')
             = {eDP1, DP1, Str_eDP1_plus_DP1, Str_DP1_plus_eDP1,
                Str_eDP1_eq_DP1, Str_DP1_eq_eDP1}]_vars

\* C2 amended: in that first cycle active becomes the display string of the
\* empty tuple and the available set is exactly the four strings eDP1, DP1,
\* eDP1+DP1, eDP1=DP1 (outputs in detection order only).
C2_FirstCycle ==
    [][C2_Scenario =>
        /\ active_layout' = <<>>
        /\ Range(available_combinations')
             = {eDP1, DP1, Str_eDP1_plus_DP1, Str_eDP1_eq_DP1}
        /\ Len(available_combinations') = 4
        /\ DOMAIN combinations_map' = Range(available_combinations')]_vars

\* the state right after such a first detection
C2_Witness ==
    /\ op = "detect"
    /\ layout.connected = <<eDP1, DP1>>
    /\ layout.disconnected = <<>>
    /\ active_comb = <<>>
    /\ active_layout = <<>>
    /\ displayed = None
    /\ Len(available_combinations) = 4

-----------------------------------------------------------------------------
(* Selection *)

\* the layout commands among the calls of a step
Layouts(calls) ==
    LET idx == {i \in 1..Len(calls) : calls[i].kind = "xrandr"}
    IN {calls[i] : i \in idx}

NLayouts(calls) ==
    Cardinality({i \in 1..Len(calls) : calls[i].kind = "xrandr"})

\* the outputs a layout command turns on, in the command's order
RECURSIVE OnOutputs(_)
OnOutputs(cmd) ==
    IF cmd = <<>> THEN <<>>
    ELSE (IF cmd[1].directive = "off" THEN <<>> ELSE <<cmd[1].output>>)
         \o OnOutputs(Tail(cmd))

Available == Range(available_combinations)

\* C3 as stated: after every completed refresh cycle or click handler, if
\* the available set is not empty, displayed is set and is a member of it.
C3_Original ==
    (pc = "return" /\ raised = "none" /\ available_combinations # <<>>)
        => displayed \in Available

\* C3 amended: displayed is a member of the available set after every
\* rotation and forced selection that ends without an exception, after the
\* force-on-start and the fallback have fired, and after an apply that
\* succeeded.  A detection changes displayed only from None (to the active
\* layout), and leaves it in the new available set exactly when the string
\* it looks for, displayed or else the active layout, is in that set;
\* otherwise displayed stays unset or stale.
C3_DisplayedWhenSelected ==
    [][/\ (op' \in {"forward", "backward", "select_head"}
              /\ raised' = "none")
            => displayed' \in Range(available_combinations')
       /\ (op' = "force_on_start" /\ nforced' # nforced)
            => displayed' \in Range(available_combinations')
       /\ (op' = "fallback" /\ ext' # <<>>)
            => displayed' \in Range(available_combinations')
       /\ (op' = "apply" /\ \E c \in Layouts(ext') : c.code = 0)
            => displayed' \in Range(available_combinations')
       /\ op' = "detect" =>
            /\ displayed' # displayed =>
                 (displayed = None /\ displayed' = active_layout')
            /\ displayed' \in Range(available_combinations')
                 <=> (IF displayed = None THEN active_layout' ELSE displayed)
                        \in Range(available_combinations')
      ]_vars

\* button 2 has snapped a stale displayed to the head of a ring of four
C3_Witness ==
    /\ op = "select_head"
    /\ raised = "none"
    /\ Len(available_combinations) = 4
    /\ displayed = available_combinations[1]
    /\ displayed # active_layout

\* C4: a non-forced Apply (button 3) in a state where displayed = active
\* issues no layout command and no workspace action and changes neither
\* active, the active mode, displayed nor the ring; and after an Apply
\* whose command succeeded displayed = active, so that the next non-forced
\* Apply is such a no-op.
C4_ApplyIdempotent ==
    [][(pc = "idle" /\ op' = "apply") =>
        /\ displayed = active_layout =>
             (ext' = <<>> /\ UNCHANGED selection)
        /\ (\E c \in Layouts(ext') : c.code = 0) =>
             /\ displayed' = active_layout'
             /\ _apply(sel', combinations_map', layout', FALSE, 0).ext = <<>>
             /\ _apply(sel', combinations_map', layout', FALSE, 1).ext = <<>>
      ]_vars

\* button 3 was pressed while displayed = active, an applicable layout
C4_Witness ==
    /\ op = "apply"
    /\ ext = <<>>
    /\ displayed = active_layout
    /\ displayed \in DOMAIN combinations_map

-----------------------------------------------------------------------------
(* Rotation *)

\* most rotations in each direction looked at by C5
MaxRotations == 5

\* n calls of _switch_selection(direction) from ring r showing d
RECURSIVE Switched(_, _, _, _)
Switched(r, d, direction, n) ==
    IF n = 0 THEN [ring |-> r, displayed |-> d]
    ELSE LET x == _switch_selection(r, d, direction)
         IN Switched(x.ring, x.displayed, direction, n - 1)

\* n rotations forward then n rotations backward from the current state
ForthAndBack(n) ==
    LET f == Switched(available_combinations, displayed, 1, n)
    IN Switched(f.ring, f.displayed, -1, n)

\* C5 as stated: from any state with a non-empty available set, whatever
\* displayed is set to, N rotations forward then N backward leave displayed
\* as it was.
C5_Original ==
    (Clickable /\ available_combinations # <<>> /\ displayed # None) =>
        \A n \in 0..MaxRotations : ForthAndBack(n).displayed = displayed

\* C5 amended: N >= 1 rotations forward then N backward leave the ring in
\* its order and displayed equal to the ring's head; so displayed is as it
\* was exactly when it was the head before the first rotation.
C5_RotationInverse ==
    (Clickable /\ available_combinations # <<>>) =>
        \A n \in 1..MaxRotations :
            /\ ForthAndBack(n).ring = available_combinations
            /\ ForthAndBack(n).displayed = available_combinations[1]
            /\ (ForthAndBack(n).displayed = displayed)
                 <=> (displayed = available_combinations[1])

\* a backward rotation has just run on a ring of four whose head is shown
C5_Witness ==
    /\ op = "backward"
    /\ Len(available_combinations) = 4
    /\ displayed = available_combinations[1]
    /\ Switched(available_combinations, displayed, 1, 1).displayed
         # displayed

-----------------------------------------------------------------------------
(* Fallback *)

\* the fallback detection is about to run in a drifted state: the active
\* layout is not available
Drift == pc = "fallback" /\ active_layout \notin Available

\* C6: in a cycle with fallback enabled, an active layout of exactly one
\* output that is not in the non-empty available set, the fallback sets
\* displayed to a member of the available set and issues exactly one layout
\* command, for the combination of displayed; if the command succeeds,
\* active is a member of the available set when the cycle ends.
C6_DriftSelfHeal ==
    [][(Drift /\ fallback /\ Len(active_comb) = 1
              /\ available_combinations # <<>>) =>
        /\ displayed' \in Available
        /\ Range(available_combinations') = Available
        /\ NLayouts(ext') = 1
        /\ \A c \in Layouts(ext') :
             /\ OnOutputs(c.cmd) = combinations_map[displayed'].comb
             /\ c.code = 0 => /\ active_layout' = displayed'
                               /\ active_layout' \in Available
        /\ pc' = "return" /\ raised' = "none"
      ]_vars

\* the fallback has applied a layout successfully
C6_Witness ==
    /\ op = "fallback"
    /\ fallback
    /\ \E c \in Layouts(ext) : c.code = 0
    /\ active_layout \in Available
    /\ active_layout = displayed

\* the active layout has two or more outputs, one of them unplugged
MultiDrift ==
    /\ Drift
    /\ fallback
    /\ Len(active_comb) >= 2
    /\ \E i \in 1..Len(active_comb) :
         active_comb[i] \notin Range(layout.connected)
    /\ layout.connected # <<>>

\* C7 as stated: when the active layout of two or more outputs is not
\* available any more because one of its outputs was unplugged, and
\* fallback is enabled, the cycle issues a layout command for a
\* single-output combination.
C7_Original ==
    [][MultiDrift =>
        \E c \in Layouts(ext') : Len(OnOutputs(c.cmd)) = 1]_vars

\* C7 amended: in that case the fallback detection issues no command at
\* all and changes neither displayed, active nor the ring; the cycle only
\* reports the degraded colour.
C7_NoMultiFallback ==
    [][MultiDrift =>
        /\ ext' = <<>>
        /\ UNCHANGED selection
        /\ color' = "degraded"
        /\ pc' = "return"]_vars

\* a cycle has ended degraded with a multi-output active layout
C7_Witness ==
    /\ op = "fallback"
    /\ fallback
    /\ Len(active_comb) >= 2
    /\ active_layout \notin Available
    /\ layout.connected # <<>>
    /\ color = "degraded"
    /\ ext = <<>>

\* C8 as stated: every layout command the fallback issues turns on exactly
\* one output.
C8_Original ==
    op = "fallback" =>
        \A c \in Layouts(ext) : Len(OnOutputs(c.cmd)) = 1

-----------------------------------------------------------------------------
(* Force on start *)

\* the force-on-start step is about to run with the configured string
\* available
StartDue ==
    /\ pc = "force"
    /\ force_on_start # None
    /\ force_on_start \in Available

-----------------------------------------------------------------------------
(* Failed apply *)

\* the step issues a layout command that fails
FailedApply == \E c \in Layouts(ext') : c.code # 0

\* C10: when the layout command returns a non-zero status, active, the
\* active combination and the active mode keep their values; displayed and
\* the ring are what they were when _apply was entered (unchanged by button
\* 3, the result of the forced selection in the fallback and force-on-start
\* steps); so after a failed non-forced apply displayed still differs from
\* active.
C10_FailedApplyKeepsState ==
    [][FailedApply =>
        /\ UNCHANGED <<active_comb, active_layout, active_mode>>
        /\ op' = "apply" =>
             /\ UNCHANGED <<displayed, available_combinations>>
             /\ displayed' # active_layout'
        /\ op' = "fallback" =>
             LET r == _choose_what_to_display(available_combinations,
                                              displayed, active_layout, TRUE)
             IN /\ displayed' = r.displayed
                /\ available_combinations' = r.ring
                /\ displayed' # active_layout'
        /\ op' = "force_on_start" =>
             LET r == _choose_what_to_display(available_combinations,
                                              force_on_start, active_layout,
                                              TRUE)
             IN /\ displayed' = r.displayed
                /\ available_combinations' = r.ring
        /\ op' \in {"apply", "fallback", "force_on_start"}
      ]_vars

\* button 3 has issued a layout command that failed
C10_Witness ==
    /\ op = "apply"
    /\ \E c \in Layouts(ext) : c.code # 0
    /\ displayed # active_layout
    /\ displayed \in Available

-----------------------------------------------------------------------------
(* The active layout *)

active == <<active_comb, active_layout, active_mode>>

\* C11: the first detection sets the active combination to the connected
\* outputs listed with a mode, in listing order, and the active layout to
\* their display string in extend mode; from then on the active layout is
\* never None again, no detection, rotation or forced selection changes the
\* active layout or combination, and every change of them happens in a step
\* whose layout command returned 0 and sets the active layout to displayed
\* and the active combination to the combination of displayed.
C11_ActiveFrame ==
    [][/\ (op' = "detect" /\ active_layout = None) =>
            /\ layout'.with_mode \subseteq Range(layout'.connected)
            /\ active_comb' = Filter(layout'.connected, layout'.with_mode)
            /\ active_layout' = _get_string(active_comb', "extend")
            /\ active_layout' # None
       /\ active_layout # None =>
            /\ active_layout' # None
            /\ op' \in {"detect", "forward", "backward", "select_head"}
                 => UNCHANGED active
            /\ (active_layout' # active_layout \/ active_comb' # active_comb)
                 => /\ op' \in {"apply", "fallback", "force_on_start"}
                    /\ \E c \in Layouts(ext') : c.code = 0
                    /\ active_layout' = displayed'
                    /\ active_comb' = combinations_map[displayed'].comb
      ]_vars

\* the first detection has found DP1 alone with a mode, eDP1 connected too
C11_Witness ==
    /\ op = "detect"
    /\ layout.connected = <<eDP1, DP1>>
    /\ layout.with_mode = {DP1}
    /\ active_comb = <<DP1>>
    /\ active_layout = DP1

-----------------------------------------------------------------------------
(* Workspaces *)

\* the i3-msg calls among the calls of a step, in order
RECURSIVE Moves(_)
Moves(calls) ==
    IF calls = <<>> THEN <<>>
    ELSE (IF calls[1].kind \in {"i3-workspace", "i3-move"}
          THEN <<calls[1]>> ELSE <<>>) \o Moves(Tail(calls))

\* the non-empty entries of each output's configured workspaces, in order:
\* DP1_workspaces = "1,2", eDP1_workspaces = "3,", none for HDMI1
HintEntries(output) ==
    IF output = DP1 THEN << <<"1">>, <<"2">> >>
    ELSE IF output = eDP1 THEN << <<"3">> >>
    ELSE <<>>

\* switch to W, then move it to the output, for each entry W
RECURSIVE PlanFor(_, _)
PlanFor(entries, output) ==
    IF entries = <<>> THEN <<>>
    ELSE << [kind |-> "i3-workspace", arg |-> entries[1]],
            [kind |-> "i3-move", arg |-> output] >>
         \o PlanFor(Tail(entries), output)

RECURSIVE Plan(_)
Plan(combination) ==
    IF combination = <<>> THEN <<>>
    ELSE PlanFor(HintEntries(combination[1]), combination[1])
         \o Plan(Tail(combination))

\* C12: in every step that issues a layout command, the i3-msg calls of the
\* step are, for a combination of two or more outputs in extend mode,
\* exactly: for each output in combination order, for each non-empty
\* comma-separated entry W of its workspaces in order, the switch to W
\* followed at once by the move to that output (nothing for an output
\* without entries); and none at all for a clone or one-output
\* combination.  No step without a layout command issues an i3-msg call.
C12_WorkspacePlan ==
    [][/\ \A c \in Layouts(ext') :
            LET e == combinations_map[displayed']
            IN Moves(ext') = IF Len(e.comb) >= 2 /\ e.mode = "extend"
                             THEN Plan(e.comb)
                             ELSE <<>>
       /\ Layouts(ext') = {} => Moves(ext') = <<>>
      ]_vars

\* DP1+HDMI1 has been applied: the two switches and moves for DP1, nothing
\* for HDMI1
C12_Witness ==
    /\ displayed = DP1 \o <<"+">> \o HDMI1
    /\ Layouts(ext) # {}
    /\ Moves(ext) = << [kind |-> "i3-workspace", arg |-> <<"1">>],
                       [kind |-> "i3-move", arg |-> DP1],
                       [kind |-> "i3-workspace", arg |-> <<"2">>],
                       [kind |-> "i3-move", arg |-> DP1] >>

-----------------------------------------------------------------------------
(* The command synthesizer and the workspace planner run on their own, on   *)
(* any listing of the three outputs and any entry of its map               *)

\* the entries of the map for a connected list: every combination with its
\* stored mode
CmdEntries(connected) ==
    LET writes == Writes(AllCombinations(connected, 0), format_clone,
                         format_extend)
    IN {writes[i].value : i \in 1..Len(writes)}

CmdInit ==
    /\ ports = <<eDP1, DP1, HDMI1>>
    /\ fallback = TRUE
    /\ fixed_width = TRUE
    /\ force_on_start = None
    /\ layout = [connected |-> <<>>, disconnected |-> <<>>, with_mode |-> {}]
    /\ available_combinations = <<>>
    /\ combinations_map = <<>>
    /\ active_comb = NoneComb
    /\ active_layout = None
    /\ active_mode = "extend"
    /\ displayed = None
    /\ max_width = 0
    /\ pc = "idle"
    /\ op = "idle"
    /\ ext = <<>>
    /\ raised = "none"
    /\ color = "none"
    /\ nforced = 0
    /\ \E connected \in DistinctSeqs(Range(ports), MaxCmd) :
       \E e \in CmdEntries(connected) :
         gen_in = [connected |-> connected,
                   disconnected |-> Filter(ports, Range(ports)
                                                    \ Range(connected)),
                   combination |-> e.comb,
                   mode |-> e.mode]
    /\ gen_out = [done |-> FALSE, cmd |-> <<>>, moves |-> <<>>]

\* lines 219-243 and _apply_workspaces for the entry
CmdRun ==
    /\ ~gen_out.done
    /\ gen_out' = [done |-> TRUE,
                   cmd |-> Command(gen_in, gen_in.combination, gen_in.mode),
                   moves |-> _apply_workspaces(gen_in.combination,
                                               gen_in.mode)]
    /\ UNCHANGED <<config, force_on_start, layout, combinations_map,
                   selection, max_width, pc, op, ext, raised, color, nforced,
                   gen_in>>

CmdNext == CmdRun

CmdSpec == CmdInit /\ [][CmdNext]_vars

-----------------------------------------------------------------------------
(* The command *)

\* the positions in the command of the outputs that are turned on
OnAt(cmd) == {i \in 1..Len(cmd) : cmd[i].directive # "off"}

\* C13: in the command for a clone combination the first output of the
\* combination met in the listing gets a positioned directive (absolute or
\* relative, never same-as) and every later one gets same-as X, X being the
\* output of the combination met last before it, whatever outputs were
\* turned off in between; the command for an extend or one-output
\* combination has no same-as directive.
C13_CloneChain ==
    gen_out.done =>
        LET cmd == gen_out.cmd
        IN IF gen_in.mode = "clone"
           THEN \A i \in OnAt(cmd) :
                  LET before == {j \in OnAt(cmd) : j < i}
                  IN IF before = {}
                     THEN cmd[i].directive \in {"pos", "relative"}
                     ELSE /\ cmd[i].directive = "same-as"
                          /\ \E j \in before :
                               /\ \A k \in before : k <= j
                               /\ cmd[i].arg = cmd[j].output
           ELSE \A i \in 1..Len(cmd) : cmd[i].directive # "same-as"

\* a clone of the first and third of three connected outputs: the third is
\* chained to the first across the second, which is off; and a clone of
\* all three is reachable too
C13_Witness ==
    /\ gen_out.done
    /\ gen_in.mode = "clone"
    /\ gen_in.connected = <<eDP1, DP1, HDMI1>>
    /\ gen_in.combination = <<eDP1, HDMI1>>
    /\ gen_out.cmd[2].directive = "off"
    /\ gen_out.cmd[3].directive = "same-as"
    /\ gen_out.cmd[3].arg = eDP1

\* C14: the command has one directive per output of the listing, the
\* connected outputs first, in listing order, then the disconnected ones in
\* listing order, each output once; an output is turned off exactly when it
\* is not in the combination, and every output of the combination is turned
\* on with --auto (positioned or same-as).
C14_CommandCoversOutputs ==
    gen_out.done =>
        LET cmd == gen_out.cmd
            outputs == gen_in.connected \o gen_in.disconnected
        IN /\ Len(cmd) = Len(outputs)
           /\ \A i \in 1..Len(cmd) : cmd[i].output = outputs[i]
           /\ \A i, j \in 1..Len(cmd) :
                cmd[i].output = cmd[j].output => i = j
           /\ {cmd[i].output : i \in 1..Len(cmd)} = Range(ports)
           /\ \A i \in 1..Len(cmd) :
                IF cmd[i].output \in Range(gen_in.combination)
                THEN cmd[i].directive \in {"pos", "relative", "same-as"}
                ELSE cmd[i].directive = "off"

\* the second of two connected outputs alone: the first and the
\* disconnected third are turned off
C14_Witness ==
    /\ gen_out.done
    /\ Len(gen_in.connected) = 2
    /\ Len(gen_in.disconnected) = 1
    /\ gen_in.combination = <<gen_in.connected[2]>>
    /\ Len(gen_out.cmd) = 3
    /\ gen_out.cmd[1].directive = "off"
    /\ gen_out.cmd[2].directive # "off"
    /\ gen_out.cmd[3].directive = "off"

-----------------------------------------------------------------------------
(* Failures *)

\* C15 as stated: a step issues i3-msg calls only with a layout command
\* that returned 0; when the layout command returns non-zero the step
\* issues no i3-msg call.
C15_Original ==
    [][/\ Moves(ext') # <<>> => \E c \in Layouts(ext') : c.code = 0
       /\ (\E c \in Layouts(ext') : c.code # 0) => Moves(ext') = <<>>
      ]_vars

\* C16 as stated, for the states in which a cycle has run and displayed is
\* set: no cycle and no click handler ends with an exception.
C16_Original ==
    [][(active_layout # None /\ displayed # None) => raised' = "none"]_vars

-----------------------------------------------------------------------------
(* Selection of the head and reconciliation *)

\* C17: once a cycle has run, button 2 on a non-empty ring ends without an
\* exception with displayed equal to the string that was at the head of the
\* ring when it was pressed, and leaves the ring in the same order, that
\* string still at its head.
C17_SelectHeadSnaps ==
    [][(op' = "select_head" /\ available_combinations # <<>>) =>
        /\ displayed' = available_combinations[1]
        /\ available_combinations'[1] = available_combinations[1]
        /\ available_combinations' = available_combinations
        /\ raised' = "none"
      ]_vars

\* button 2 has replaced a stale displayed, an output that is not connected
\* any more, by the head of a ring of four
C17_Witness ==
    /\ op = "select_head"
    /\ raised = "none"
    /\ Len(available_combinations) = 4
    /\ displayed = available_combinations[1]
    /\ active_layout = HDMI1
    /\ active_layout \notin Available

\* the string a reconciliation looks for
Target(disp, act) == IF disp = None THEN act ELSE disp

-----------------------------------------------------------------------------
(* The reconciliation of line 352 run on its own, on any ring of the       *)
(* two-output machine, any displayed and any active layout                 *)

\* the connected lists whose rings are tried
ChooseConnected == {<<>>, <<eDP1>>, <<DP1>>, <<eDP1, DP1>>}

\* displayed: unset, a string of the ring of both outputs, or an output
\* that is not connected
ChooseDisplayed == {None, eDP1, DP1, Str_eDP1_plus_DP1, HDMI1}

\* the active combination, and its mode
ChooseActive ==
    {[comb |-> <<>>, mode |-> "extend"],
     [comb |-> <<eDP1>>, mode |-> NoMode],
     [comb |-> <<DP1>>, mode |-> NoMode],
     [comb |-> <<HDMI1>>, mode |-> NoMode],
     [comb |-> <<eDP1, DP1>>, mode |-> "clone"]}

ChooseInit ==
    /\ ports = <<eDP1, DP1>>
    /\ fallback = TRUE
    /\ fixed_width = FALSE
    /\ force_on_start = None
    /\ \E connected \in ChooseConnected :
         /\ layout = [connected |-> connected,
                      disconnected |-> Filter(ports, Range(ports)
                                                       \ Range(connected)),
                      with_mode |-> {}]
         /\ combinations_map = Generate(connected).map
         /\ max_width = Generate(connected).max_width
         /\ available_combinations \in Orders(Generate(connected).available)
    /\ displayed \in ChooseDisplayed
    /\ \E a \in ChooseActive :
         /\ active_comb = a.comb
         /\ active_mode = a.mode
         /\ active_layout = _get_string(a.comb, a.mode)
    /\ pc = "idle"
    /\ op = "idle"
    /\ ext = <<>>
    /\ raised = "none"
    /\ color = "none"
    /\ nforced = 0
    /\ gen_in = [connected |-> <<>>, format_clone |-> format_clone,
                 format_extend |-> format_extend]
    /\ gen_out = [done |-> FALSE, available |-> {}, map |-> <<>>,
                  max_width |-> 0]

\* self._choose_what_to_display() as called at line 352
Reconcile ==
    /\ pc = "idle"
    /\ LET r == _choose_what_to_display(available_combinations, displayed,
                                        active_layout, FALSE)
       IN /\ available_combinations' = r.ring
          /\ displayed' = r.displayed
          /\ raised' = r.raised
    /\ op' = "reconcile"
    /\ pc' = "return"
    /\ UNCHANGED <<config, force_on_start, layout, combinations_map,
                   active_comb, active_layout, active_mode, max_width, ext,
                   color, nforced, gen_in, gen_out>>

ChooseNext == Reconcile

ChooseSpec == ChooseInit /\ [][ChooseNext]_vars

\* C18: a non-forced reconciliation leaves a set displayed as it is,
\* whether or not it is in the ring; when the string it looks for
\* (displayed, or the active layout while displayed is unset) is at no
\* position of the ring, the ring ends in the order it had and displayed is
\* unchanged; it raises nothing and changes nothing of the active layout.
C18_ReconcileKeepsDisplayed ==
    [][op' = "reconcile" =>
        /\ raised' = "none"
        /\ displayed # None => displayed' = displayed
        /\ Target(displayed, active_layout) \notin Available
             => /\ available_combinations' = available_combinations
                /\ displayed' = displayed
        /\ Range(available_combinations') = Available
        /\ UNCHANGED active
      ]_vars

\* a reconciliation has kept a displayed that is not in its ring of four,
\* and the ring is in the order it had
C18_Witness ==
    /\ op = "reconcile"
    /\ displayed = HDMI1
    /\ available_combinations
         = <<Str_eDP1_eq_DP1, DP1, Str_eDP1_plus_DP1, eDP1>>

-----------------------------------------------------------------------------
(* Degraded cycles and coherence of the ring with displayed *)

\* C19 as stated: a cycle whose fallback detection finds the active layout
\* not available returns with the degraded colour; the fallback issues a
\* layout command only in such a cycle, with fallback enabled and an active
\* combination of one output; with fallback disabled such a cycle issues
\* nothing and changes neither displayed nor the active layout.
C19_Original ==
    [][/\ Drift => (raised' = "none" /\ pc' = "return"
                     /\ color' = "degraded")
       /\ (op' = "fallback" /\ Layouts(ext') # {})
            => (Drift /\ fallback /\ Len(active_comb) = 1)
       /\ (Drift /\ ~fallback)
            => (ext' = <<>> /\ UNCHANGED <<displayed, active>>)
      ]_vars

\* displayed after k forward rotations from the current state
Visited(k) == Switched(available_combinations, displayed, 1, k).displayed

\* C20: in every state from the first detection on, if displayed is in the
\* available set it is the head of the ring; and, n being the length of the
\* ring, the values displayed takes in n forward rotations are the n
\* members of the available set, each once, the ring being back in its
\* order after the n-th; when displayed started as a member, the n-th
\* rotation is the first to show it again.
C20_CursorCoherence ==
    active_layout # None =>
        LET n == Len(available_combinations)
        IN /\ displayed \in Available => available_combinations[1] = displayed
           /\ {Visited(k) : k \in 1..n} = Available
           /\ \A j, k \in 1..n : Visited(j) = Visited(k) => j = k
           /\ Switched(available_combinations, displayed, 1, n).ring
                = available_combinations
           /\ displayed \in Available =>
                /\ Visited(n) = displayed
                /\ \A k \in 1..(n - 1) : Visited(k) # displayed

\* a forward rotation has just run on a ring of four
C20_Witness ==
    /\ op = "forward"
    /\ raised = "none"
    /\ Len(available_combinations) = 4
    /\ displayed = available_combinations[1]
    /\ Visited(1) = available_combinations[4]
    /\ Visited(4) = displayed

====
